---- MODULE Spec2Model ----
(***************************************************************************)
(* Model of the AdaptiveCruiseControl class (AdaptiveCruiseControl.h/.cpp). *)
(*                                                                         *)
(* The three telemetry fields are C++ doubles.  The model keeps them on    *)
(* the integer grid (every integer below 2^53 is an exact double, and the  *)
(* steps -5.0 and +2.0 are exact on it), and computes the one inexact      *)
(* quantity, the safe distance egoSpeed * (5.0 / 9.0) and its multiple     *)
(* safeDistance * 1.5, in IEEE-754 binary64 arithmetic (53-bit significand,*)
(* round to nearest, ties to even) on arbitrary-precision naturals.        *)
(***************************************************************************)
EXTENDS Integers, Sequences, FiniteSets

(***************************************************************************)
(* Arbitrary-precision naturals: little-endian sequences of limbs in base  *)
(* LimbBase = 2^LimbBits, without leading (most significant) zero limbs;   *)
(* zero is the empty sequence.                                             *)
(***************************************************************************)
LimbBits == 13

RECURSIVE Pow2(_)
Pow2(n) == IF n = 0 THEN 1 ELSE 2 * Pow2(n - 1)

LimbBase == Pow2(LimbBits)

RECURSIVE BigStrip(_)
BigStrip(a) ==
    IF a = <<>> THEN <<>>
    ELSE IF a[Len(a)] = 0 THEN BigStrip(SubSeq(a, 1, Len(a) - 1))
    ELSE a

RECURSIVE BigFromNat(_)
BigFromNat(n) ==
    IF n = 0 THEN <<>> ELSE <<n % LimbBase>> \o BigFromNat(n \div LimbBase)

\* a * k + carry, for a small natural k (k * LimbBase fits a machine word)
RECURSIVE BigMulSmallC(_, _, _)
BigMulSmallC(a, k, carry) ==
    IF a = <<>> THEN BigFromNat(carry)
    ELSE LET t == a[1] * k + carry
         IN  <<t % LimbBase>> \o BigMulSmallC(Tail(a), k, t \div LimbBase)

BigMulSmall(a, k) == BigStrip(BigMulSmallC(a, k, 0))

\* a + b + carry
RECURSIVE BigAddC(_, _, _)
BigAddC(a, b, carry) ==
    IF a = <<>> /\ b = <<>> THEN BigFromNat(carry)
    ELSE LET x == IF a = <<>> THEN 0 ELSE a[1]
             y == IF b = <<>> THEN 0 ELSE b[1]
             t == x + y + carry
         IN  <<t % LimbBase>>
               \o BigAddC(IF a = <<>> THEN <<>> ELSE Tail(a),
                          IF b = <<>> THEN <<>> ELSE Tail(b), t \div LimbBase)

BigAdd(a, b) == BigStrip(BigAddC(a, b, 0))

\* a * b, limb by limb
RECURSIVE BigMulR(_, _)
BigMulR(a, b) ==
    IF b = <<>> THEN <<>>
    ELSE BigAddC(BigMulSmallC(a, b[1], 0), <<0>> \o BigMulR(a, Tail(b)), 0)

BigMul(a, b) == BigStrip(BigMulR(a, b))

\* a + 1
RECURSIVE BigInc(_)
BigInc(a) ==
    IF a = <<>> THEN <<1>>
    ELSE IF a[1] + 1 < LimbBase THEN <<a[1] + 1>> \o Tail(a)
    ELSE <<0>> \o BigInc(Tail(a))

RECURSIVE BitLen(_)
BitLen(n) == IF n = 0 THEN 0 ELSE 1 + BitLen(n \div 2)

BigBitLen(a) ==
    IF a = <<>> THEN 0 ELSE LimbBits * (Len(a) - 1) + BitLen(a[Len(a)])

\* bit i (0 = least significant) of a
BigBit(a, i) ==
    LET j == (i \div LimbBits) + 1
    IN  IF j > Len(a) THEN 0 ELSE (a[j] \div Pow2(i % LimbBits)) % 2

\* TRUE iff some bit of a below bit i is set
BigLowBitsSet(a, i) ==
    LET j == (i \div LimbBits) + 1
    IN  \/ \E x \in 1..Len(a) : x < j /\ a[x] # 0
        \/ j <= Len(a) /\ a[j] % Pow2(i % LimbBits) # 0

\* a * 2^s
BigShl(a, s) ==
    IF a = <<>> THEN <<>>
    ELSE [x \in 1..(s \div LimbBits) |-> 0] \o BigMulSmall(a, Pow2(s % LimbBits))

\* floor(a / 2^s)
BigShr(a, s) ==
    LET d == s \div LimbBits
        b == s % LimbBits
        limb(x) == IF x <= Len(a) THEN a[x] ELSE 0
    IN  IF d >= Len(a) THEN <<>>
        ELSE BigStrip([x \in 1..(Len(a) - d) |->
                 (limb(x + d) \div Pow2(b))
                   + (limb(x + d + 1) % Pow2(b)) * Pow2(LimbBits - b)])

\* -1, 0, 1 as a < b, a = b, a > b
RECURSIVE BigCmpAt(_, _, _)
BigCmpAt(a, b, x) ==
    IF x = 0 THEN 0
    ELSE IF a[x] < b[x] THEN -1
    ELSE IF a[x] > b[x] THEN 1
    ELSE BigCmpAt(a, b, x - 1)

BigCmp(a, b) ==
    IF Len(a) < Len(b) THEN -1
    ELSE IF Len(a) > Len(b) THEN 1
    ELSE BigCmpAt(a, b, Len(a))

\* <<floor(a / d), a mod d>> for a small natural d; long division from the top limb
RECURSIVE BigDivSmallR(_, _, _)
BigDivSmallR(a, d, rem) ==
    IF a = <<>> THEN <<<<>>, rem>>
    ELSE LET t == rem * LimbBase + a[Len(a)]
             r == BigDivSmallR(SubSeq(a, 1, Len(a) - 1), d, t % d)
         IN  <<r[1] \o <<t \div d>>, r[2]>>

BigDivSmall(a, d) ==
    LET r == BigDivSmallR(a, d, 0) IN <<BigStrip(r[1]), r[2]>>

(***************************************************************************)
(* binary64 values: [m |-> significand, e |-> exponent, neg |-> sign],     *)
(* value (-1)^neg * m * 2^e, m of at most MantBits bits.                   *)
(***************************************************************************)
MantBits == 53

\* round the exact value m * 2^e to MantBits significant bits, nearest, ties to even
DRound(m, e) ==
    LET s == BigBitLen(m) - MantBits
    IN  IF s <= 0 THEN [m |-> m, e |-> e, neg |-> FALSE]
        ELSE LET q    == BigShr(m, s)
                 half == BigBit(m, s - 1) = 1
                 rest == BigLowBitsSet(m, s - 1)
                 up   == half /\ (rest \/ BigBit(q, 0) = 1)
             IN  [m |-> IF up THEN BigInc(q) ELSE q, e |-> e + s, neg |-> FALSE]

\* x * (k * 2^e) for a natural k, correctly rounded
DMul(x, k, e) == [DRound(BigMulSmall(x.m, k), x.e + e) EXCEPT !.neg = x.neg]

\* x * n for an integer-valued double n, correctly rounded
DMulInt(x, n) ==
    IF n >= 0 THEN DMul(x, n, 0)
    ELSE [DMul(x, 0 - n, 0) EXCEPT !.neg = ~x.neg]

\* x * y, correctly rounded
DMulD(x, y) ==
    [DRound(BigMul(x.m, y.m), x.e + y.e) EXCEPT !.neg = (x.neg # y.neg)]

\* n / d for naturals n and d, correctly rounded
DDivNat(n, d) ==
    LET sh == MantBits + BitLen(d)
        qr == BigDivSmall(BigShl(BigFromNat(n), sh), d)
        \* a sticky bit below the quotient stands for the non-zero remainder
        m  == IF qr[2] = 0 THEN BigShl(qr[1], 1) ELSE BigInc(BigShl(qr[1], 1))
    IN  DRound(m, 0 - sh - 1)

\* -1, 0, 1 as the natural n is below, equal to, above the magnitude of x
DCmpNat(n, x) ==
    IF x.e <= 0 THEN BigCmp(BigShl(BigFromNat(n), 0 - x.e), x.m)
    ELSE BigCmp(BigFromNat(n), BigShl(x.m, x.e))

\* -1, 0, 1 as the integer-valued double n is below, equal to, above the double x
DCmpInt(n, x) ==
    IF x.neg /\ x.m # <<>>
    THEN IF n >= 0 THEN 1 ELSE 0 - DCmpNat(0 - n, x)
    ELSE IF n < 0 THEN -1 ELSE DCmpNat(n, x)

(***************************************************************************)
(* Program constants of AdaptiveCruiseControl.cpp.                         *)
(***************************************************************************)
FollowNum     == 5      \* 5.0 in (5.0 / 9.0)
FollowDen     == 9      \* 9.0 in (5.0 / 9.0)
GoodGapFactor == [k |-> 3, e |-> -1]   \* 1.5 = 3 * 2^-1
DecreaseStep  == 5      \* egoSpeed - 5.0
IncreaseStep  == 2      \* egoSpeed + 2.0
MaxSpeedLimit == 120    \* 120.0

(***************************************************************************)
(* Bounds of the model: the arguments callers pass.                        *)
(***************************************************************************)
MaxSpeedSteps == 9
MaxGapSteps   == 5
\* consecutive adjustSpeed() calls the history counts before it saturates
MaxAdjustRun  == 2

\* speeds (km/h) passed to the constructor and to updateAheadVehicleSpeed;
\* one negative value, and values above the 120 km/h limit
SpeedArgs    == {15 * k : k \in -1..MaxSpeedSteps}
\* distances (m) passed to the constructor and to updateDistance; 55 m is 1.5 times
\* the safe distance at 66 km/h, where the double product rounds above the real one
DistanceArgs == {25 * k : k \in -1..MaxGapSteps} \cup {55}

Max(a, b) == IF a > b THEN a ELSE b
Min(a, b) == IF a < b THEN a ELSE b

VARIABLES
    egoSpeed,                \* double egoSpeed
    aheadVehicleSpeed,       \* double aheadVehicleSpeed
    distanceToAheadVehicle,  \* double distanceToAheadVehicle
    logFileName,             \* std::string logFileName
    files,                   \* the file system: the records of each writable log file
    out,                     \* what the last call printed to std::cout
    ret,                     \* what the last call returned
    op,                      \* history: the call that produced this state
    arg,                     \* history: its argument (0 when it takes none)
    pre,                     \* history: the object and the files before that call
    lastSpeedArg,            \* history: last non-negative speed passed, else the constructed one
    lastDistanceArg,         \* history: last non-negative distance passed, else the constructed one
    adjustRun,               \* history: adjustSpeed() calls since the last telemetry update
    runStart,                \* history: egoSpeed before the first of them
    saves,                   \* history: successful saveStatusToFile() calls per file
    calls,                   \* position of the calling program: calls made so far
    test                     \* the calling program's inputs, position and readings

vars == <<egoSpeed, aheadVehicleSpeed, distanceToAheadVehicle, logFileName, files,
          out, ret, op, arg, pre, lastSpeedArg, lastDistanceArg, adjustRun,
          runStart, saves, calls, test>>

logState == <<logFileName, files, saves>>

Snapshot == [ego   |-> egoSpeed,
             ahead |-> aheadVehicleSpeed,
             gap   |-> distanceToAheadVehicle,
             log   |-> logFileName,
             files |-> files]

(***************************************************************************)
(* Log files.  Opening a file for append succeeds for the writable names   *)
(* and fails for a path in a directory that does not exist.                *)
(***************************************************************************)
DefaultLogFile == "acc_log.txt"
CustomLogFile  == "custom_log.txt"
InvalidLogFile == "/invalid/path/test.txt"
DemoLogFile    == "demo_log.txt"
InteractiveLogFile == "interactive_log.txt"

LogFileNames  == {DefaultLogFile, CustomLogFile, InvalidLogFile}
WritableFiles == {DefaultLogFile, CustomLogFile, DemoLogFile, InteractiveLogFile}

NoOutput == <<>>
NoValue  == <<>>

(***************************************************************************)
(* AdaptiveCruiseControl(egoSpeed, aheadVehicleSpeed, distance, logFile):  *)
(* the member initializer list stores the four arguments.                  *)
(***************************************************************************)
\* variant: the ego speed clamped into [0, 120] at construction
Construct_Clamped(e, a, d, f) ==
    [ego |-> Max(0, Min(MaxSpeedLimit, e)), ahead |-> a, gap |-> d, log |-> f]

Construct(e, a, d, f) == [ego |-> e, ahead |-> a, gap |-> d, log |-> f]

\* the default arguments of the constructor's declaration
DefaultArguments ==
    [ego |-> 0, ahead |-> 0, gap |-> 0, log |-> DefaultLogFile, defaulted |-> TRUE]

Arguments(e, a, d, f) ==
    [ego |-> e, ahead |-> a, gap |-> d, log |-> f, defaulted |-> FALSE]

\* the object and the environment right after the constructor ran with arguments args
Constructed(args) ==
    LET c == Construct(args.ego, args.ahead, args.gap, args.log)
    IN  /\ egoSpeed = c.ego
        /\ aheadVehicleSpeed = c.ahead
        /\ distanceToAheadVehicle = c.gap
        /\ logFileName = c.log
        /\ files = [n \in WritableFiles |-> <<>>]
        /\ out = NoOutput
        /\ ret = NoValue
        /\ op = "construct"
        /\ arg = args
        /\ pre = Snapshot
        /\ lastSpeedArg = args.ahead
        /\ lastDistanceArg = args.gap
        /\ adjustRun = 0
        /\ runStart = c.ego
        /\ saves = [n \in WritableFiles |-> 0]

\* the constructor run by a program that has made calls before: the files
\* keep what was written to them
NewController(args) ==
    LET c == Construct(args.ego, args.ahead, args.gap, args.log)
    IN  /\ egoSpeed' = c.ego
        /\ aheadVehicleSpeed' = c.ahead
        /\ distanceToAheadVehicle' = c.gap
        /\ logFileName' = c.log
        /\ UNCHANGED <<files, saves>>
        /\ out' = NoOutput
        /\ ret' = NoValue
        /\ op' = "construct"
        /\ arg' = args
        /\ pre' = [ego |-> c.ego, ahead |-> c.ahead, gap |-> c.gap,
                   log |-> c.log, files |-> files]
        /\ lastSpeedArg' = args.ahead
        /\ lastDistanceArg' = args.gap
        /\ adjustRun' = 0
        /\ runStart' = c.ego

\* callers that construct with non-negative values and the default log file
Init ==
    /\ \E e \in {x \in SpeedArgs : x >= 0}, a \in {x \in SpeedArgs : x >= 0},
          d \in {x \in DistanceArgs : x >= 0} :
           Constructed(Arguments(e, a, d, DefaultLogFile))
    /\ calls = 0
    /\ test = <<>>

(***************************************************************************)
(* void updateAheadVehicleSpeed(double speed)                              *)
(***************************************************************************)
\* variant: zero rejected along with the negatives
NewAheadVehicleSpeed_Strict(old, speed) == IF speed > 0 THEN speed ELSE old

\* variant: no validation
NewAheadVehicleSpeed_NoCheck(old, speed) == speed

NewAheadVehicleSpeed(old, speed) == IF speed >= 0 THEN speed ELSE old

\* variant: the argument assigned to the ego speed, the member next to it
UpdateAheadVehicleSpeed_WritesEgo(speed) ==
    /\ egoSpeed' = NewAheadVehicleSpeed(egoSpeed, speed)
    /\ UNCHANGED <<aheadVehicleSpeed, distanceToAheadVehicle>>
    /\ op' = "updateAheadVehicleSpeed"
    /\ arg' = speed
    /\ pre' = Snapshot
    /\ lastSpeedArg' = IF speed >= 0 THEN speed ELSE lastSpeedArg
    /\ UNCHANGED lastDistanceArg
    /\ adjustRun' = 0
    /\ runStart' = egoSpeed
    /\ out' = NoOutput
    /\ ret' = NoValue
    /\ UNCHANGED logState

UpdateAheadVehicleSpeed(speed) ==
    /\ aheadVehicleSpeed' = NewAheadVehicleSpeed(aheadVehicleSpeed, speed)
    /\ UNCHANGED <<egoSpeed, distanceToAheadVehicle>>
    /\ op' = "updateAheadVehicleSpeed"
    /\ arg' = speed
    /\ pre' = Snapshot
    /\ lastSpeedArg' = IF speed >= 0 THEN speed ELSE lastSpeedArg
    /\ UNCHANGED lastDistanceArg
    /\ adjustRun' = 0
    /\ runStart' = egoSpeed
    /\ out' = NoOutput
    /\ ret' = NoValue
    /\ UNCHANGED logState

(***************************************************************************)
(* void updateDistance(double distance)                                    *)
(***************************************************************************)
\* variant: zero rejected along with the negatives
NewDistance_Strict(old, distance) == IF distance > 0 THEN distance ELSE old

NewDistance(old, distance) == IF distance >= 0 THEN distance ELSE old

UpdateDistance(distance) ==
    /\ distanceToAheadVehicle' = NewDistance(distanceToAheadVehicle, distance)
    /\ UNCHANGED <<egoSpeed, aheadVehicleSpeed>>
    /\ op' = "updateDistance"
    /\ arg' = distance
    /\ pre' = Snapshot
    /\ lastDistanceArg' = IF distance >= 0 THEN distance ELSE lastDistanceArg
    /\ UNCHANGED lastSpeedArg
    /\ adjustRun' = 0
    /\ runStart' = egoSpeed
    /\ out' = NoOutput
    /\ ret' = NoValue
    /\ UNCHANGED logState

(***************************************************************************)
(* double calculateSafeDistance() const: egoSpeed * (5.0 / 9.0), a double  *)
(***************************************************************************)
FollowFactor == DDivNat(FollowNum, FollowDen)

\* variant: 5 / 9 taken as an integer division
CalculateSafeDistance_IntegerRatio(ego) ==
    DMulInt(DDivNat(FollowNum \div FollowDen, 1), ego)

CalculateSafeDistance(ego) == DMulInt(FollowFactor, ego)

(***************************************************************************)
(* void adjustSpeed()                                                      *)
(***************************************************************************)
\* variant: a gap equal to the safe distance counted as too close
TooClose_Inclusive(distance, safeDistance) == DCmpInt(distance, safeDistance) <= 0

\* distanceToAheadVehicle < safeDistance
TooClose(distance, safeDistance) == DCmpInt(distance, safeDistance) < 0

\* variant: the 1.2 factor of the advisory used for the good-distance test
GoodDistance_SafeGapFactor(distance, safeDistance) ==
    DCmpInt(distance, DMulD(safeDistance, DDivNat(12, 10))) > 0

\* variant: the 1.5 boundary counted as good distance
GoodDistance_Inclusive(distance, safeDistance) ==
    DCmpInt(distance, DMul(safeDistance, GoodGapFactor.k, GoodGapFactor.e)) >= 0

\* distanceToAheadVehicle > safeDistance * 1.5
GoodDistance(distance, safeDistance) ==
    DCmpInt(distance, DMul(safeDistance, GoodGapFactor.k, GoodGapFactor.e)) > 0

\* variant: always the fixed step, never the snap
SlowDown_AlwaysStep(ego, ahead) == Max(0, ego - DecreaseStep)

\* variant: a lead at ego speed treated as slower
SlowDown_LeadAtOrBelow(ego, ahead) ==
    IF ahead <= ego THEN ahead ELSE Max(0, ego - DecreaseStep)

\* variant: no floor at zero
SlowDown_NoFloor(ego, ahead) ==
    IF ahead < ego THEN ahead ELSE ego - DecreaseStep

\* variant: behind a lead that is not slower the speed is held
SlowDown_HoldBehindFasterLead(ego, ahead) ==
    IF ahead < ego THEN ahead ELSE ego

\* the too-close branch
SlowDown(ego, ahead) ==
    IF ahead < ego THEN ahead ELSE Max(0, ego - DecreaseStep)

\* variant: no cap on the raised speed
SpeedUp_NoCap(ego, ahead) ==
    IF ahead > ego /\ ego < MaxSpeedLimit THEN ego + IncreaseStep ELSE ego

\* variant: the limit tested before the step instead of capping its result
SpeedUp_LimitBeforeStep(ego, ahead) ==
    IF ahead > ego /\ ego <= MaxSpeedLimit THEN ego + IncreaseStep ELSE ego

\* variant: no test of the limit, so a speed above it is capped down
SpeedUp_PullDown(ego, ahead) ==
    IF ahead > ego THEN Min(MaxSpeedLimit, ego + IncreaseStep) ELSE ego

\* variant: a vehicle at rest is never started
SpeedUp_NotFromRest(ego, ahead) ==
    IF ahead > ego /\ ego > 0 /\ ego < MaxSpeedLimit
    THEN Min(MaxSpeedLimit, ego + IncreaseStep)
    ELSE ego

\* variant: the speed raised to the lead's speed in one step
SpeedUp_MatchLead(ego, ahead) ==
    IF ahead > ego /\ ego < MaxSpeedLimit
    THEN Min(MaxSpeedLimit, ahead)
    ELSE ego

\* the good-distance branch
SpeedUp(ego, ahead) ==
    IF ahead > ego /\ ego < MaxSpeedLimit
    THEN Min(MaxSpeedLimit, ego + IncreaseStep)
    ELSE ego

AdjustedSpeed(ego, ahead, distance) ==
    LET safeDistance == CalculateSafeDistance(ego)
    IN  IF TooClose(distance, safeDistance) THEN SlowDown(ego, ahead)
        ELSE IF GoodDistance(distance, safeDistance) THEN SpeedUp(ego, ahead)
        ELSE ego

AdjustSpeed ==
    /\ egoSpeed' = AdjustedSpeed(egoSpeed, aheadVehicleSpeed, distanceToAheadVehicle)
    /\ UNCHANGED <<aheadVehicleSpeed, distanceToAheadVehicle>>
    /\ op' = "adjustSpeed"
    /\ arg' = 0
    /\ pre' = Snapshot
    /\ UNCHANGED <<lastSpeedArg, lastDistanceArg>>
    /\ adjustRun' = Min(adjustRun + 1, MaxAdjustRun)
    /\ runStart' = IF adjustRun = 0 THEN egoSpeed ELSE runStart
    /\ out' = NoOutput
    /\ ret' = NoValue
    /\ UNCHANGED logState

(***************************************************************************)
(* A call of calculateSafeDistance() by a client: const, returns a double. *)
(***************************************************************************)
CallCalculateSafeDistance ==
    /\ ret' = CalculateSafeDistance(egoSpeed)
    /\ UNCHANGED <<egoSpeed, aheadVehicleSpeed, distanceToAheadVehicle>>
    /\ op' = "calculateSafeDistance"
    /\ arg' = 0
    /\ pre' = Snapshot
    /\ UNCHANGED <<lastSpeedArg, lastDistanceArg, adjustRun, runStart>>
    /\ out' = NoOutput
    /\ UNCHANGED logState

\* the control loop: any telemetry update or adjustment, in any order, for ever
Loop(Call) == Call /\ UNCHANGED <<calls, test>>

Next ==
    \/ \E speed \in SpeedArgs : Loop(UpdateAheadVehicleSpeed(speed))
    \/ \E distance \in DistanceArgs : Loop(UpdateDistance(distance))
    \/ Loop(AdjustSpeed)

Spec == Init /\ [][Next]_vars

(***************************************************************************)
(* std::fixed << std::setprecision(1): a value is printed with one digit   *)
(* after the point, the exact binary value rounded to the nearest tenth,   *)
(* ties to even.  A printed number is held as its count of tenths.         *)
(***************************************************************************)
RECURSIVE BigToNat(_)
BigToNat(a) == IF a = <<>> THEN 0 ELSE a[1] + LimbBase * BigToNat(Tail(a))

FixedScale == 10

\* a field of the model, an integer-valued double
Fixed(n) == FixedScale * n

\* a computed double
FixedD(x) ==
    LET p   == BigMulSmall(x.m, FixedScale)
        s   == 0 - x.e
        mag == IF s <= 0 THEN BigToNat(BigShl(p, x.e))
               ELSE LET q    == BigShr(p, s)
                        half == BigBit(p, s - 1) = 1
                        rest == BigLowBitsSet(p, s - 1)
                        up   == half /\ (rest \/ BigBit(q, 0) = 1)
                    IN  BigToNat(IF up THEN BigInc(q) ELSE q)
    IN  IF x.neg THEN 0 - mag ELSE mag

(***************************************************************************)
(* void displayStatus() const: the four values and an advisory on stdout.  *)
(***************************************************************************)
SafeGapFactor == DDivNat(12, 10)

\* distanceToAheadVehicle > safeDistance * 1.2
SafeGap(distance, safeDistance) ==
    DCmpInt(distance, DMulD(safeDistance, SafeGapFactor)) > 0

\* variant: the advisory drawn with the 1.5 factor of adjustSpeed()
StatusLine_GoodGapFactor(ahead, distance, safeDistance) ==
    IF DCmpInt(distance, safeDistance) < 0
    THEN <<"Too close! Reduce speed to", Fixed(ahead)>>
    ELSE IF DCmpInt(distance, DMul(safeDistance, GoodGapFactor.k, GoodGapFactor.e)) > 0
    THEN <<"Safe gap maintained - Hold speed">>
    ELSE <<"Caution - Maintain current speed">>

StatusLine(ahead, distance, safeDistance) ==
    IF DCmpInt(distance, safeDistance) < 0
    THEN <<"Too close! Reduce speed to", Fixed(ahead)>>
    ELSE IF SafeGap(distance, safeDistance)
    THEN <<"Safe gap maintained - Hold speed">>
    ELSE <<"Caution - Maintain current speed">>

DisplayStatus ==
    /\ LET safeDistance == CalculateSafeDistance(egoSpeed)
       IN  out' = [speed    |-> Fixed(egoSpeed),
                   ahead    |-> Fixed(aheadVehicleSpeed),
                   distance |-> Fixed(distanceToAheadVehicle),
                   safe     |-> FixedD(safeDistance),
                   status   |-> StatusLine(aheadVehicleSpeed,
                                           distanceToAheadVehicle, safeDistance)]
    /\ UNCHANGED <<egoSpeed, aheadVehicleSpeed, distanceToAheadVehicle>>
    /\ op' = "displayStatus"
    /\ arg' = 0
    /\ pre' = Snapshot
    /\ UNCHANGED <<lastSpeedArg, lastDistanceArg, adjustRun, runStart>>
    /\ ret' = NoValue
    /\ UNCHANGED logState

(***************************************************************************)
(* void saveStatusToFile() const: one record appended to the log file, or  *)
(* an error line on stdout when the file cannot be opened.                 *)
(***************************************************************************)
\* std::ofstream logFile(logFileName, std::ios::app); logFile.is_open()
IsOpen(name) == name \in WritableFiles

\* time(0): the clock read by the call, here the count of calls made before it
Now == calls

\* variant: the logged status drawn with the 1.5 factor of adjustSpeed()
LogStatusLine_GoodGapFactor(ahead, distance, safeDistance) ==
    IF DCmpInt(distance, safeDistance) < 0
    THEN <<"Too close! Reduce speed to", Fixed(ahead)>>
    ELSE IF DCmpInt(distance, DMul(safeDistance, GoodGapFactor.k, GoodGapFactor.e)) > 0
    THEN <<"Safe gap maintained - Hold speed">>
    ELSE <<"Caution - Maintain current speed">>

LogStatusLine(ahead, distance, safeDistance) ==
    IF DCmpInt(distance, safeDistance) < 0
    THEN <<"Too close! Reduce speed to", Fixed(ahead)>>
    ELSE IF SafeGap(distance, safeDistance)
    THEN <<"Safe gap maintained - Hold speed">>
    ELSE <<"Caution - Maintain current speed">>

Record ==
    LET safeDistance == CalculateSafeDistance(egoSpeed)
    IN  [timestamp |-> Now,
         speed     |-> Fixed(egoSpeed),
         ahead     |-> Fixed(aheadVehicleSpeed),
         distance  |-> Fixed(distanceToAheadVehicle),
         safe      |-> FixedD(safeDistance),
         status    |-> LogStatusLine(aheadVehicleSpeed,
                                     distanceToAheadVehicle, safeDistance)]

\* variant: the file opened without std::ios::app, its old content dropped
Written_Truncating(content, record) == <<record>>

\* the content of a file opened with std::ios::app after the record is written
Written(content, record) == Append(content, record)

\* variant: a failed open passes without a word
SaveMessage_Silent(name) ==
    IF IsOpen(name) THEN <<"Status saved to log file: ", name>> ELSE NoOutput

SaveMessage(name) ==
    IF IsOpen(name)
    THEN <<"Status saved to log file: ", name>>
    ELSE <<"Error: Could not open log file for writing!">>

SaveStatusToFile ==
    /\ files' = IF IsOpen(logFileName)
                THEN [files EXCEPT ![logFileName] = Written(@, Record)]
                ELSE files
    /\ saves' = IF IsOpen(logFileName)
                THEN [saves EXCEPT ![logFileName] = @ + 1]
                ELSE saves
    /\ out' = SaveMessage(logFileName)
    /\ UNCHANGED <<egoSpeed, aheadVehicleSpeed, distanceToAheadVehicle, logFileName>>
    /\ op' = "saveStatusToFile"
    /\ arg' = 0
    /\ pre' = Snapshot
    /\ UNCHANGED <<lastSpeedArg, lastDistanceArg, adjustRun, runStart>>
    /\ ret' = NoValue

(***************************************************************************)
(* void setLogFileName(const std::string& fileName)                        *)
(***************************************************************************)
SetLogFileName(fileName) ==
    /\ logFileName' = fileName
    /\ UNCHANGED <<egoSpeed, aheadVehicleSpeed, distanceToAheadVehicle, files, saves>>
    /\ op' = "setLogFileName"
    /\ arg' = fileName
    /\ pre' = Snapshot
    /\ UNCHANGED <<lastSpeedArg, lastDistanceArg, adjustRun, runStart>>
    /\ out' = NoOutput
    /\ ret' = NoValue

(***************************************************************************)
(* A client with a budget of calls: it constructs the object as one of the *)
(* callers in the repository does, or with values no check refuses, and    *)
(* then makes up to MaxCalls calls of any public operation.                *)
(***************************************************************************)
MaxCalls == 3

Constructions ==
    { DefaultArguments,
      Arguments(80, 75, 50, CustomLogFile),
      Arguments(75, 70, 35, InvalidLogFile),
      Arguments(0, 50, 10, DefaultLogFile),
      Arguments(200, 180, 100, DefaultLogFile),
      Arguments(60, 65, 50, DefaultLogFile),
      Arguments(90, 85, 50, DefaultLogFile),
      Arguments(75, 70, 50, DefaultLogFile),
      Arguments(77, 70, 43, CustomLogFile),
      Arguments(-20, -10, -5, DefaultLogFile) }

ClientSpeedArgs == {-10, 60}

ClientDistanceArgs == {-5, 25}

InitIO ==
    /\ \E args \in Constructions : Constructed(args)
    /\ calls = 0
    /\ test = <<>>

Client(Call) ==
    /\ calls < MaxCalls
    /\ Call
    /\ calls' = calls + 1
    /\ UNCHANGED test

NextIO ==
    \/ \E speed \in ClientSpeedArgs : Client(UpdateAheadVehicleSpeed(speed))
    \/ \E distance \in ClientDistanceArgs : Client(UpdateDistance(distance))
    \/ Client(AdjustSpeed)
    \/ Client(CallCalculateSafeDistance)
    \/ Client(DisplayStatus)
    \/ Client(SaveStatusToFile)
    \/ \E fileName \in LogFileNames : Client(SetLogFileName(fileName))

SpecIO == InitIO /\ [][NextIO]_vars

(***************************************************************************)
(* The client of the test MultipleAdjustments: construct, then              *)
(*   adjustSpeed, updateDistance(d), adjustSpeed, updateAheadVehicleSpeed(a),*)
(*   adjustSpeed, reading getEgoSpeed() after each adjustSpeed.             *)
(* The test's values are among the inputs.                                  *)
(***************************************************************************)
SeqEgoSpeeds   == {80, 90}
SeqAheadSpeeds == {60, 70}
SeqDistances   == {20, 25}
SeqNewDistance == {40, 50, 60}
SeqNewSpeeds   == {65, 85}

SeqLength == 5

InitSeq ==
    /\ \E e \in SeqEgoSpeeds, a \in SeqAheadSpeeds, d \in SeqDistances :
           Constructed(Arguments(e, a, d, DefaultLogFile))
    /\ calls = 0
    /\ \E d \in SeqNewDistance, a \in SeqNewSpeeds :
           test = [args |-> arg, distance |-> d, speed |-> a, seen |-> <<>>]

SeqAdjust ==
    /\ calls \in {0, 2, 4}
    /\ AdjustSpeed
    /\ calls' = calls + 1
    /\ test' = [test EXCEPT !.seen = Append(@, egoSpeed')]

SeqUpdateDistance ==
    /\ calls = 1
    /\ UpdateDistance(test.distance)
    /\ calls' = calls + 1
    /\ UNCHANGED test

SeqUpdateAheadVehicleSpeed ==
    /\ calls = 3
    /\ UpdateAheadVehicleSpeed(test.speed)
    /\ calls' = calls + 1
    /\ UNCHANGED test

NextSeq ==
    \/ SeqAdjust
    \/ SeqUpdateDistance
    \/ SeqUpdateAheadVehicleSpeed

SpecSeq == InitSeq /\ [][NextSeq]_vars

(***************************************************************************)
(* runDemo(): a new controller on demo_log.txt, then the fixed sequence of *)
(* calls below.  The menu can start the demo again, up to MaxDemoRuns      *)
(* times; every run appends to the same file.  test holds the run number,  *)
(* the position in the sequence, the ego speed after each adjustSpeed()    *)
(* and the number of saveStatusToFile() calls of the run.                  *)
(***************************************************************************)
MaxDemoRuns == 5

DemoArguments == Arguments(60, 55, 25, DemoLogFile)

DemoCall(call, value) == [call |-> call, value |-> value]

DemoScript ==
    << DemoCall("displayStatus", 0), DemoCall("saveStatusToFile", 0),
       DemoCall("adjustSpeed", 0),
       DemoCall("displayStatus", 0), DemoCall("saveStatusToFile", 0),
       DemoCall("updateDistance", 34),
       DemoCall("displayStatus", 0), DemoCall("saveStatusToFile", 0),
       DemoCall("updateAheadVehicleSpeed", 70),
       DemoCall("updateDistance", 40),
       DemoCall("displayStatus", 0), DemoCall("saveStatusToFile", 0),
       DemoCall("adjustSpeed", 0),
       DemoCall("displayStatus", 0), DemoCall("saveStatusToFile", 0),
       DemoCall("updateDistance", 15),
       DemoCall("displayStatus", 0), DemoCall("saveStatusToFile", 0),
       DemoCall("adjustSpeed", 0),
       DemoCall("displayStatus", 0), DemoCall("saveStatusToFile", 0),
       DemoCall("displayStatus", 0), DemoCall("saveStatusToFile", 0) >>

DemoDone == test.pc = Len(DemoScript)

InitDemo ==
    /\ Constructed(DemoArguments)
    /\ calls = 0
    /\ test = [run |-> 1, pc |-> 0, seen |-> <<>>, saved |-> 0]

\* the next statement of runDemo() when it is the call named
Demo(call, Call) ==
    /\ ~DemoDone
    /\ DemoScript[test.pc + 1].call = call
    /\ Call
    /\ calls' = calls + 1
    /\ test' = [test EXCEPT
                   !.pc = @ + 1,
                   !.seen = IF call = "adjustSpeed" THEN Append(@, egoSpeed') ELSE @,
                   !.saved = IF call = "saveStatusToFile" THEN @ + 1 ELSE @]

\* menu choice 1 once more
DemoAgain ==
    /\ DemoDone
    /\ test.run < MaxDemoRuns
    /\ NewController(DemoArguments)
    /\ calls' = calls + 1
    /\ test' = [run |-> test.run + 1, pc |-> 0, seen |-> <<>>, saved |-> 0]

NextDemo ==
    \/ Demo("displayStatus", DisplayStatus)
    \/ Demo("saveStatusToFile", SaveStatusToFile)
    \/ Demo("adjustSpeed", AdjustSpeed)
    \/ Demo("updateDistance", UpdateDistance(DemoScript[test.pc + 1].value))
    \/ Demo("updateAheadVehicleSpeed",
            UpdateAheadVehicleSpeed(DemoScript[test.pc + 1].value))
    \/ DemoAgain

SpecDemo == InitDemo /\ [][NextDemo]_vars

(***************************************************************************)
(* runInteractive(), the log file name left at its default.  For each      *)
(* scenario the user is asked for the ego speed, the lead's speed and the  *)
(* distance, one entry per line; a controller is built from the three      *)
(* local variables, shown and saved; the user may have it adjust once, and *)
(* may ask for another scenario, up to MaxScenarios of them.               *)
(* test holds the position in the function, the three local variables,     *)
(* and as history the text last entered at each prompt and the prompt last *)
(* answered.                                                               *)
(***************************************************************************)
MaxScenarios == 2

InteractiveSpeedRange    == [lo |-> 0, hi |-> 120]
InteractiveDistanceRange == [lo |-> 0, hi |-> 200]

Prompts == {"egoSpeed", "aheadSpeed", "distance"}

\* what the user may type at the three prompts
EgoSpeedEntries   == {"60", "150", "-5", "abc"}
AheadSpeedEntries == {"55", "121", "abc"}
DistanceEntries   == {"25", "201", "abc"}
Choices           == {"y", "n"}

\* the entries that are numbers, and the number each denotes
Numerals ==
    [text \in {"60", "150", "-5", "55", "121", "25", "201"} |->
        CASE text = "60"  -> 60
          [] text = "150" -> 150
          [] text = "-5"  -> 0 - 5
          [] text = "55"  -> 55
          [] text = "121" -> 121
          [] text = "25"  -> 25
          [] text = "201" -> 201]

\* std::cin >> value on a line holding text: the number is stored when the
\* text is one; otherwise the extraction fails and stores zero
Extracted(text) ==
    IF text \in DOMAIN Numerals
    THEN [ok |-> TRUE, value |-> Numerals[text]]
    ELSE [ok |-> FALSE, value |-> 0]

InvalidInput(range) ==
    <<"Invalid input! Please enter a value between ", range.lo, " and ", range.hi, ".">>

NewScenario(n) ==
    [pc       |-> "egoSpeed",
     scenario |-> n,
     value    |-> [p \in Prompts |-> NoValue],
     entry    |-> [p \in Prompts |-> ""],
     asked    |-> ""]

\* before the first scenario no controller exists: the fields are given the
\* values of the constructor's defaults
InitInteractive ==
    /\ egoSpeed = 0
    /\ aheadVehicleSpeed = 0
    /\ distanceToAheadVehicle = 0
    /\ logFileName = InteractiveLogFile
    /\ files = [n \in WritableFiles |-> <<>>]
    /\ out = NoOutput
    /\ ret = NoValue
    /\ op = "runInteractive"
    /\ arg = InteractiveLogFile
    /\ pre = Snapshot
    /\ lastSpeedArg = 0
    /\ lastDistanceArg = 0
    /\ adjustRun = 0
    /\ runStart = 0
    /\ saves = [n \in WritableFiles |-> 0]
    /\ calls = 0
    /\ test = NewScenario(1)

\* a step of runInteractive() that reads the console and calls nothing
Console(text) ==
    /\ op' = "prompt"
    /\ arg' = text
    /\ pre' = Snapshot
    /\ ret' = NoValue
    /\ UNCHANGED <<egoSpeed, aheadVehicleSpeed, distanceToAheadVehicle>>
    /\ UNCHANGED <<lastSpeedArg, lastDistanceArg, adjustRun, runStart, calls>>
    /\ UNCHANGED logState

\* do { if (!(std::cin >> v) || v < lo || v > hi) { message; clear; ignore; } }
\* while (v < lo || v > hi);   one pass of the loop
Prompt(prompt, range, next, text) ==
    LET r == Extracted(text)
        outside == r.value < range.lo \/ r.value > range.hi
    IN  /\ test.pc = prompt
        /\ out' = IF ~r.ok \/ outside THEN InvalidInput(range) ELSE NoOutput
        /\ test' = [test EXCEPT !.pc = IF outside THEN prompt ELSE next,
                                !.value[prompt] = r.value,
                                !.entry[prompt] = text,
                                !.asked = prompt]
        /\ Console(text)

\* a call on the controller at position at
Interactive(at, next, Call) ==
    /\ test.pc = at
    /\ Call
    /\ calls' = calls + 1
    /\ test' = [test EXCEPT !.pc = next]

InteractiveArguments ==
    Arguments(test.value["egoSpeed"], test.value["aheadSpeed"],
              test.value["distance"], InteractiveLogFile)

\* std::cin >> adjustChoice
AdjustChoice(choice) ==
    /\ test.pc = "adjustChoice"
    /\ out' = NoOutput
    /\ test' = [test EXCEPT !.pc = IF choice = "y" THEN "adjustSpeed"
                                   ELSE "continueChoice"]
    /\ Console(choice)

\* std::cin >> continueChoice
ContinueChoice(choice) ==
    /\ test.pc = "continueChoice"
    /\ choice = "y" => test.scenario < MaxScenarios
    /\ out' = NoOutput
    /\ test' = IF choice = "y" THEN NewScenario(test.scenario + 1)
               ELSE [test EXCEPT !.pc = "done"]
    /\ Console(choice)

NextInteractive ==
    \/ \E text \in EgoSpeedEntries :
           Prompt("egoSpeed", InteractiveSpeedRange, "aheadSpeed", text)
    \/ \E text \in AheadSpeedEntries :
           Prompt("aheadSpeed", InteractiveSpeedRange, "distance", text)
    \/ \E text \in DistanceEntries :
           Prompt("distance", InteractiveDistanceRange, "construct", text)
    \/ Interactive("construct", "displayStatus", NewController(InteractiveArguments))
    \/ Interactive("displayStatus", "saveStatusToFile", DisplayStatus)
    \/ Interactive("saveStatusToFile", "adjustChoice", SaveStatusToFile)
    \/ \E choice \in Choices : AdjustChoice(choice)
    \/ Interactive("adjustSpeed", "displayAdjusted", AdjustSpeed)
    \/ Interactive("displayAdjusted", "saveAdjusted", DisplayStatus)
    \/ Interactive("saveAdjusted", "continueChoice", SaveStatusToFile)
    \/ \E choice \in Choices : ContinueChoice(choice)

SpecInteractive == InitInteractive /\ [][NextInteractive]_vars

(***************************************************************************)
(* A caller that constructs the controller with non-negative values and    *)
(* then only calls adjustSpeed(), again and again, the telemetry held      *)
(* fixed.  The caller never stops calling: weak fairness of the call.      *)
(***************************************************************************)
SettleEgoSpeeds   == {0, 1, 2, 3, 4, 45, 60, 66, 90, 118, 119, 120}
SettleAheadSpeeds == {0, 3, 50, 135}
SettleDistances   == {0, 1, 2, 3, 4, 5, 25, 50, 55, 100}

InitSettle ==
    /\ \E e \in SettleEgoSpeeds, a \in SettleAheadSpeeds, d \in SettleDistances :
           Constructed(Arguments(e, a, d, DefaultLogFile))
    /\ calls = 0
    /\ test = <<>>

\* adjustSpeed() on every state this caller can reach, computed once
SettleAdjustedSpeed ==
    [e \in 0..MaxSpeedLimit |->
        [a \in SettleAheadSpeeds |->
            [d \in SettleDistances |-> AdjustedSpeed(e, a, d)]]]

SettleAdjustSpeed ==
    /\ egoSpeed' =
          SettleAdjustedSpeed[egoSpeed][aheadVehicleSpeed][distanceToAheadVehicle]
    /\ UNCHANGED <<aheadVehicleSpeed, distanceToAheadVehicle>>
    /\ op' = "adjustSpeed"
    /\ arg' = 0
    /\ pre' = Snapshot
    /\ UNCHANGED <<lastSpeedArg, lastDistanceArg>>
    /\ adjustRun' = Min(adjustRun + 1, MaxAdjustRun)
    /\ runStart' = IF adjustRun = 0 THEN egoSpeed ELSE runStart
    /\ out' = NoOutput
    /\ ret' = NoValue
    /\ UNCHANGED logState

NextSettle == Loop(SettleAdjustSpeed)

SpecSettle == InitSettle /\ [][NextSettle]_vars /\ WF_vars(NextSettle)

(***************************************************************************)
(* The zones as the specification states them, over the reals:             *)
(* safe = ego * 5/9 and 1.5 * safe = ego * 5/6, cleared of fractions.      *)
(***************************************************************************)
RealTooClose(s)     == 9 * s.gap < 5 * s.ego
RealGoodDistance(s) == 6 * s.gap > 5 * s.ego
RealComfort(s)      == 9 * s.gap >= 5 * s.ego /\ 6 * s.gap <= 5 * s.ego

Adjusted == op = "adjustSpeed"

\* C1: too close with a slower lead, adjustSpeed() sets egoSpeed to the lead's
\* speed exactly, whatever the size of the drop.
C1_SnapToSlowerLead ==
    (Adjusted /\ RealTooClose(pre) /\ pre.ahead < pre.ego)
        => egoSpeed = pre.ahead

C1_Witness ==
    /\ Adjusted /\ RealTooClose(pre) /\ pre.ahead < pre.ego
    /\ pre.ego - pre.ahead > 5
    /\ egoSpeed = pre.ahead

\* C2: too close with a lead at or above ego speed, adjustSpeed() sets egoSpeed
\* to max(0, old egoSpeed - 5).
C2_StepDownFloored ==
    (Adjusted /\ RealTooClose(pre) /\ pre.ahead >= pre.ego)
        => egoSpeed = Max(0, pre.ego - 5)

C2_Witness ==
    /\ Adjusted /\ RealTooClose(pre) /\ pre.ahead = pre.ego
    /\ pre.ego >= 5
    /\ egoSpeed = pre.ego - 5

C5_GoodDistanceNoChange ==
    (Adjusted /\ RealGoodDistance(pre) /\ (pre.ahead <= pre.ego \/ pre.ego >= 120))
        => egoSpeed = pre.ego

C5_Witness ==
    /\ Adjusted /\ RealGoodDistance(pre)
    /\ pre.ego > 120 /\ pre.ahead > pre.ego
    /\ egoSpeed = pre.ego

\* C6: egoSpeed is never negative, whatever calls are made with whatever arguments.
C6_EgoSpeedNonNegative == egoSpeed >= 0

\* the floor at work: a step of 5 from below 5 ends at zero
C6_Witness ==
    /\ Adjusted /\ RealTooClose(pre) /\ pre.ahead > pre.ego
    /\ pre.ego < 5
    /\ egoSpeed = 0

C8_AheadSpeedLastValid ==
    /\ (op = "updateAheadVehicleSpeed" /\ arg >= 0) => aheadVehicleSpeed = arg
    /\ (op = "updateAheadVehicleSpeed" /\ arg < 0) => aheadVehicleSpeed = pre.ahead
    /\ aheadVehicleSpeed = lastSpeedArg

C8_Witness ==
    /\ op = "updateAheadVehicleSpeed"
    /\ arg < 0
    /\ pre.ahead > 0
    /\ aheadVehicleSpeed = pre.ahead

\* C9: updateDistance(distance) stores distance when distance >= 0 (0 included) and
\* changes nothing when distance < 0; so the gap is always the last non-negative
\* argument passed, or the constructed value if there was none.
C9_DistanceLastValid ==
    /\ (op = "updateDistance" /\ arg >= 0) => distanceToAheadVehicle = arg
    /\ (op = "updateDistance" /\ arg < 0) => distanceToAheadVehicle = pre.gap
    /\ distanceToAheadVehicle = lastDistanceArg

C9_Witness ==
    /\ op = "updateDistance"
    /\ arg = 0
    /\ pre.gap > 0
    /\ distanceToAheadVehicle = 0

\* C10: aheadVehicleSpeed >= 0 and the gap >= 0 in every reachable state.
C10_TelemetryNonNegative ==
    aheadVehicleSpeed >= 0 /\ distanceToAheadVehicle >= 0

\* a negative distance offered while the gap is zero, and refused
C10_Witness ==
    /\ op = "updateDistance"
    /\ arg < 0
    /\ pre.gap = 0
    /\ aheadVehicleSpeed >= 0 /\ distanceToAheadVehicle = 0

(***************************************************************************)
(* Claims about the remaining operations.                                  *)
(***************************************************************************)
\* |x - num / den| <= 10^-6 for a double x, an integer num and a natural den > 0
Near(x, num, den) ==
    LET n    == IF num < 0 THEN 0 - num ELSE num
        a    == BigMulSmall(BigMulSmall(BigMulSmall(x.m, den), 1000), 1000)
        b    == BigFromNat(n * 1000 * 1000)
        t    == BigFromNat(den)
        sh   == 0 - x.e
        as   == IF sh >= 0 THEN a ELSE BigShl(a, x.e)
        bs   == IF sh >= 0 THEN BigShl(b, sh) ELSE b
        ts   == IF sh >= 0 THEN BigShl(t, sh) ELSE t
    IN  /\ x.m = <<>> \/ n = 0 \/ x.neg = (num < 0)
        /\ BigCmp(as, BigAdd(bs, ts)) <= 0
        /\ BigCmp(bs, BigAdd(as, ts)) <= 0

SameTelemetry ==
    /\ egoSpeed = pre.ego
    /\ aheadVehicleSpeed = pre.ahead
    /\ distanceToAheadVehicle = pre.gap

C12_FrameConditions ==
    /\ Adjusted => /\ aheadVehicleSpeed = pre.ahead
                   /\ distanceToAheadVehicle = pre.gap
                   /\ logFileName = pre.log
    /\ op = "updateAheadVehicleSpeed" =>
           egoSpeed = pre.ego /\ distanceToAheadVehicle = pre.gap
    /\ op = "updateDistance" =>
           egoSpeed = pre.ego /\ aheadVehicleSpeed = pre.ahead
    /\ egoSpeed # pre.ego => Adjusted

\* an accepted lead speed above a different ego speed, stored without touching it
C12_Witness ==
    /\ op = "updateAheadVehicleSpeed"
    /\ arg = 60
    /\ aheadVehicleSpeed = 60
    /\ pre.ahead # 60
    /\ egoSpeed = 80
    /\ distanceToAheadVehicle = 50

C15_StoppedVehicleStays ==
    (Adjusted /\ pre.ego = 0 /\ pre.ahead = 50 /\ pre.gap = 10) =>
        /\ TooClose(pre.gap, CalculateSafeDistance(pre.ego))
        /\ egoSpeed = 0

\* C16: after adjustSpeed() has snapped egoSpeed down to the lead's speed, a gap
\* raised to at least the safe distance makes the next adjustSpeed() hold that
\* speed, and once the lead's speed is updated above it the following
\* adjustSpeed() raises egoSpeed by 2: construct(80, 70, 25) reads 70, 70, 72.
C16_SnapHoldThenRaise ==
    (/\ calls = SeqLength
     /\ RealTooClose(test.args) /\ test.args.ahead < test.args.ego
     /\ 9 * test.distance >= 5 * test.args.ahead
     /\ test.speed > test.args.ahead)
        => test.seen = <<test.args.ahead, test.args.ahead,
                         test.args.ahead + IncreaseStep>>

\* C17: construction stores its four arguments unmodified, the default ones being
\* 0, 0, 0 and "acc_log.txt"; nothing is clamped to 120 or made non-negative, and
\* a constructed egoSpeed stays until an adjustSpeed() changes it.
C17_ConstructionStoresArguments ==
    /\ op = "construct" =>
          /\ egoSpeed = arg.ego
          /\ aheadVehicleSpeed = arg.ahead
          /\ distanceToAheadVehicle = arg.gap
          /\ logFileName = arg.log
          /\ arg.defaulted =>
                /\ egoSpeed = 0 /\ aheadVehicleSpeed = 0 /\ distanceToAheadVehicle = 0
                /\ logFileName = "acc_log.txt"
    /\ (op # "construct" /\ ~Adjusted) => egoSpeed = pre.ego

\* 200 km/h given to the constructor, still there after a call that is no adjustment
C17_Witness ==
    /\ op = "displayStatus"
    /\ calls = 1
    /\ egoSpeed = 200
    /\ egoSpeed > MaxSpeedLimit

\* the advisory the reals ask for: 1.2 * (5/9) = 2/3
RealAdvisory(s) ==
    IF 9 * s.gap < 5 * s.ego THEN "Too close! Reduce speed to"
    ELSE IF 3 * s.gap > 2 * s.ego THEN "Safe gap maintained - Hold speed"
    ELSE "Caution - Maintain current speed"

\* C18: the advisory rendered is 'too close' iff gap < safe, 'safe gap, hold speed'
\* iff gap >= safe and gap > 1.2 * safe, and 'caution, maintain speed' otherwise
\* (safe <= gap <= 1.2 * safe); on the console and in the log record alike.
C18_AdvisoryClassification ==
    /\ op = "displayStatus" => out.status[1] = RealAdvisory(pre)
    /\ (op = "saveStatusToFile" /\ pre.log \in WritableFiles) =>
           files[pre.log][Len(files[pre.log])].status[1] = RealAdvisory(pre)

\* 60 km/h and 50 m: the gap is 1.5 * safe, inside the comfort zone of
\* adjustSpeed(), and above 1.2 * safe, so the advisory is 'safe gap'
C18_Witness ==
    /\ op = "displayStatus"
    /\ pre.ego = 60 /\ pre.gap = 50
    /\ RealComfort(pre)
    /\ out.status = <<"Safe gap maintained - Hold speed">>

\* C19: a saveStatusToFile() that cannot open the configured file prints an error
\* message, appends no record, and leaves the three telemetry fields, the log file
\* name and every file as they were, so that what follows starts from the state
\* before the call.
C19_UnwritableLogLeavesState ==
    (op = "saveStatusToFile" /\ pre.log \notin WritableFiles) =>
        /\ out = <<"Error: Could not open log file for writing!">>
        /\ files = pre.files
        /\ SameTelemetry
        /\ logFileName = pre.log

\* a failed save made after a successful one to another file
C19_Witness ==
    /\ op = "saveStatusToFile"
    /\ pre.log = InvalidLogFile
    /\ out = <<"Error: Could not open log file for writing!">>
    /\ \E n \in WritableFiles : Len(files[n]) = 1

Last(q) == q[Len(q)]

\* C20: each successful saveStatusToFile() appends exactly one record to the end
\* of the configured file (the constructor's argument or the latest
\* setLogFileName value), carrying the three telemetry values and the safe
\* distance of the state at the call; no other call and no save to another file
\* touches a file's records; so a file holds as many records as successful saves
\* were made to it, in call order.
C20_AppendOnlyLog ==
    /\ (op = "saveStatusToFile" /\ pre.log \in WritableFiles) =>
          /\ files[pre.log] = Append(pre.files[pre.log], Last(files[pre.log]))
          /\ Last(files[pre.log]).speed = FixedScale * pre.ego
          /\ Last(files[pre.log]).ahead = FixedScale * pre.ahead
          /\ Last(files[pre.log]).distance = FixedScale * pre.gap
          /\ 2 * FollowDen * Last(files[pre.log]).safe
                 <= 2 * FixedScale * FollowNum * pre.ego + FollowDen
          /\ 2 * FollowDen * Last(files[pre.log]).safe
                 >= 2 * FixedScale * FollowNum * pre.ego - FollowDen
          /\ \A n \in WritableFiles \ {pre.log} : files[n] = pre.files[n]
    /\ op # "saveStatusToFile" => files = pre.files
    /\ op = "setLogFileName" => logFileName = arg
    /\ op = "construct" => logFileName = arg.log
    /\ op \notin {"setLogFileName", "construct"} => logFileName = pre.log
    /\ \A n \in WritableFiles :
          /\ Len(files[n]) = saves[n]
          /\ \A i \in 1..(Len(files[n]) - 1) :
                files[n][i].timestamp < files[n][i + 1].timestamp

\* two saves to one file with a telemetry update between them
C20_Witness ==
    /\ op = "saveStatusToFile"
    /\ Len(files[CustomLogFile]) = 2
    /\ files[CustomLogFile][1].distance = 500
    /\ files[CustomLogFile][2].distance = 250
    /\ saves[CustomLogFile] = 2

\* C24: from a state with 0 <= egoSpeed <= 120 no call, update or adjustSpeed(),
\* leads to a state with egoSpeed above 120, whatever the lead's speed (above 120
\* included) and the gap; so a controller started there never exceeds 120.
C24_LimitPreserved ==
    [][(0 <= egoSpeed /\ egoSpeed <= MaxSpeedLimit) => egoSpeed' <= MaxSpeedLimit]_vars

\* a lead at 135 km/h far ahead, the ego speed raised from 119 to the limit only
C24_Witness ==
    /\ Adjusted
    /\ pre.ahead = 135
    /\ pre.ego = MaxSpeedLimit - 1
    /\ RealGoodDistance(pre)
    /\ egoSpeed = MaxSpeedLimit

\* the tests of adjustSpeed() taken in the other order
AdjustedSpeed_GoodDistanceFirst(ego, ahead, distance) ==
    LET safeDistance == CalculateSafeDistance(ego)
    IN  IF GoodDistance(distance, safeDistance) THEN SpeedUp(ego, ahead)
        ELSE IF TooClose(distance, safeDistance) THEN SlowDown(ego, ahead)
        ELSE ego

\* C25: in every state with egoSpeed >= 0 and gap >= 0 exactly one of too-close
\* (gap < safe), good-distance (gap > 1.5 * safe) and comfort (safe <= gap <=
\* 1.5 * safe) holds, as the code compares them and over the reals alike; too-close
\* and good-distance never hold together, so testing them in the other order gives
\* the same adjusted speed.
C25_ZonesPartition ==
    (egoSpeed >= 0 /\ distanceToAheadVehicle >= 0) =>
        LET safeDistance == CalculateSafeDistance(egoSpeed)
            goodGap == DMul(safeDistance, GoodGapFactor.k, GoodGapFactor.e)
            zones   == << TooClose(distanceToAheadVehicle, safeDistance),
                          GoodDistance(distanceToAheadVehicle, safeDistance),
                          /\ DCmpInt(distanceToAheadVehicle, safeDistance) >= 0
                          /\ DCmpInt(distanceToAheadVehicle, goodGap) <= 0 >>
        IN  /\ zones \in {<<TRUE, FALSE, FALSE>>, <<FALSE, TRUE, FALSE>>,
                          <<FALSE, FALSE, TRUE>>}
            /\ zones = <<RealTooClose(Snapshot), RealGoodDistance(Snapshot),
                         RealComfort(Snapshot)>>
            /\ AdjustedSpeed(egoSpeed, aheadVehicleSpeed, distanceToAheadVehicle)
                 = AdjustedSpeed_GoodDistanceFirst(egoSpeed, aheadVehicleSpeed,
                                                   distanceToAheadVehicle)

\* the gap exactly 1.5 times the safe distance: comfort, by a hair not good distance
C25_Witness ==
    /\ egoSpeed = 60
    /\ distanceToAheadVehicle = 50
    /\ aheadVehicleSpeed > egoSpeed
    /\ ~GoodDistance(distanceToAheadVehicle, CalculateSafeDistance(egoSpeed))
    /\ RealComfort(Snapshot)

C27_HoldAdvisoryHolds ==
    (/\ Adjusted
     /\ pre.ego >= 0 /\ pre.ahead >= 0 /\ pre.gap >= 0
     /\ StatusLine(pre.ahead, pre.gap, CalculateSafeDistance(pre.ego))
            = <<"Safe gap maintained - Hold speed">>)
        => egoSpeed = pre.ego

\* a displayStatus() made right after a successful saveStatusToFile()
SavedJustBefore ==
    /\ op = "displayStatus"
    /\ pre.log \in WritableFiles
    /\ Len(files[pre.log]) >= 1
    /\ Last(files[pre.log]).timestamp = calls - 2

\* C28: on one state displayStatus() and saveStatusToFile() choose the same
\* advisory and report the same four values, and neither changes a telemetry field.
C28_DisplayMirrorsLog ==
    /\ SavedJustBefore =>
          /\ out.status = Last(files[pre.log]).status
          /\ out.speed = Last(files[pre.log]).speed
          /\ out.ahead = Last(files[pre.log]).ahead
          /\ out.distance = Last(files[pre.log]).distance
          /\ out.safe = Last(files[pre.log]).safe
    /\ op \in {"displayStatus", "saveStatusToFile"} => SameTelemetry

\* 60 km/h and 50 m, saved and then displayed: 'safe gap' both times
C28_Witness ==
    /\ SavedJustBefore
    /\ egoSpeed = 60 /\ distanceToAheadVehicle = 50
    /\ out.status = <<"Safe gap maintained - Hold speed">>
    /\ Last(files[pre.log]).status = out.status

\* C22: with the telemetry held fixed and a non-negative starting state, repeated
\* adjustSpeed() calls reach a state from which egoSpeed never changes again.
C22_Settles == <>[][egoSpeed' = egoSpeed]_vars

\* gaps for which no raise of 2 km/h can land below the safe distance: none at
\* all, or at least 10/3 m, the safe distance of 6 km/h; or a lead at rest
NoOvershoot ==
    \/ distanceToAheadVehicle = 0
    \/ 3 * distanceToAheadVehicle >= 10
    \/ aheadVehicleSpeed = 0

\* C22, amended: with the telemetry held fixed, a non-negative starting state, and
\* a gap of 0 or of at least 10/3 m (or a lead at rest), repeated adjustSpeed()
\* calls reach a state from which egoSpeed never changes again.
C22_SettlesWithoutOvershoot == <>[][NoOvershoot => egoSpeed' = egoSpeed]_vars

\* settled below the speed the run started with, two calls without a change
C22_Witness ==
    /\ Adjusted
    /\ NoOvershoot
    /\ distanceToAheadVehicle = 25
    /\ arg = 0
    /\ egoSpeed = pre.ego
    /\ egoSpeed = 45
    /\ aheadVehicleSpeed = 50
    /\ adjustRun >= 2
    /\ RealComfort(Snapshot)

\* the too-close states (gap < 5/9 * egoSpeed) among those the caller can reach
TooCloseStates ==
    {s \in (0..MaxSpeedLimit) \X SettleDistances : 9 * s[2] < 5 * s[1]}

TooCloseNow == <<egoSpeed, distanceToAheadVehicle>> \in TooCloseStates

LoweredWhenTooClose ==
    (Adjusted /\ RealTooClose(pre)) =>
        /\ egoSpeed < pre.ego
        /\ egoSpeed = pre.ahead \/ egoSpeed = Max(0, pre.ego - DecreaseStep)
        /\ egoSpeed <= aheadVehicleSpeed

\* C23: with the telemetry held fixed, from a non-negative too-close state repeated
\* adjustSpeed() calls lead to a state that is not too close; each step in the
\* zone lowers egoSpeed, to the lead's speed or by 5 (never below 0), and leaves it
\* at or below the lead's speed, so that only the first step can be a snap.
C23_LeavesTooClose ==
    /\ []LoweredWhenTooClose
    /\ (TooCloseNow ~> ~TooCloseNow)

\* a too-close run of several steps that has just ended with a sufficient gap
C23_Witness ==
    /\ Adjusted
    /\ RealTooClose(pre)
    /\ ~RealTooClose(Snapshot)
    /\ egoSpeed = pre.ego - DecreaseStep
    /\ egoSpeed > 0
    /\ runStart >= egoSpeed + 2 * DecreaseStep

\* C29: runDemo() reads ego speeds 55, 55 and 50 after its three adjustSpeed()
\* calls (a snap to the lead, a hold in the comfort band after the updates to
\* 70 km/h and 40 m, a step of 5 at 15 m), ends in (50, 70, 15), still too
\* close, and has issued exactly 8 saveStatusToFile() calls, all appended to
\* demo_log.txt.
C29_DemoTrace ==
    /\ test.seen = SubSeq(<<55, 55, 50>>, 1, Len(test.seen))
    /\ DemoDone =>
          /\ test.seen = <<55, 55, 50>>
          /\ <<egoSpeed, aheadVehicleSpeed, distanceToAheadVehicle>> = <<50, 70, 15>>
          /\ RealTooClose(Snapshot)
          /\ TooClose(distanceToAheadVehicle, CalculateSafeDistance(egoSpeed))
          /\ test.saved = 8
          /\ logFileName = DemoLogFile
          /\ Len(files[DemoLogFile]) = 8 * test.run
          /\ \A n \in WritableFiles \ {DemoLogFile} : files[n] = <<>>

C29_Witness ==
    /\ DemoDone
    /\ test.run = 1
    /\ op = "saveStatusToFile"
    /\ Len(test.seen) = 3
    /\ Last(files[DemoLogFile]).speed = Fixed(50)

\* what the specification calls an entry the prompt accepts: a number within
\* the range of the prompt
ValidEntry(text, range) ==
    /\ text \in DOMAIN Numerals
    /\ range.lo <= Numerals[text]
    /\ Numerals[text] <= range.hi

\* C21: runInteractive() builds every controller from an ego speed and a lead
\* speed in [0, 120] and a distance in [0, 200] that were entered as valid; an
\* entry out of range or not a number gets the 'Invalid input' message and the
\* same value is asked for again, and is never used to build the scenario.
C21_InvalidEntriesRejected ==
    /\ (op = "prompt" /\ out # NoOutput) => test.pc = test.asked
    /\ op = "construct" =>
          /\ egoSpeed \in InteractiveSpeedRange.lo .. InteractiveSpeedRange.hi
          /\ aheadVehicleSpeed \in InteractiveSpeedRange.lo .. InteractiveSpeedRange.hi
          /\ distanceToAheadVehicle
                \in InteractiveDistanceRange.lo .. InteractiveDistanceRange.hi
          /\ ValidEntry(test.entry["egoSpeed"], InteractiveSpeedRange)
          /\ ValidEntry(test.entry["aheadSpeed"], InteractiveSpeedRange)
          /\ ValidEntry(test.entry["distance"], InteractiveDistanceRange)

====
